---------------------------- MODULE Spec2Model ----------------------------
(***************************************************************************)
(* A model of sherpa-onnx's OnlineLstmTransducerModel                      *)
(* (sherpa-onnx/csrc/online-lstm-transducer-model.cc): the construction of *)
(* the model from the metadata of its three ONNX graphs, the recurrent     *)
(* state of the LSTM encoder, and the encoder / decoder / joiner calls of  *)
(* the streams that share one model.                                       *)
(*                                                                         *)
(* An Ort::Value is a record [null, id, shape, data]; a moved-from         *)
(* Ort::Value is NullValue.  The ONNX runtime and the graphs are outside   *)
(* the repository: Run is modelled by the contract the code relies on      *)
(* (positional inputs and outputs, an exception on failure).               *)
(***************************************************************************)
EXTENDS Integers, Sequences, FiniteSets, TLC

VARIABLES
  meta_data,   \* the custom metadata of the encoder and decoder files
  pc,          \* where the constructor is: start, encoder, decoder, constructed, exited
  model,       \* the OnlineLstmTransducerModel object (its members)
  model0,      \* history: the members as the constructor left them
  active,      \* the streams the surrounding system runs on this model
  streams,     \* per stream: the caller's variables (states, hyp, values in flight)
  log,         \* history, per stream: the inputs of the calls the stream made
  bdi,         \* BuildDecoderInput applied to a drawn hypothesis
  stk          \* StackStates / UnStackStates applied to drawn states

vars == <<meta_data, pc, model, model0, active, streams, log, bdi, stk>>

-----------------------------------------------------------------------------
(* Bounds of the model *)

\* metadata values and token ids are drawn from 1..MaxDim
MaxDim == 2
\* chunks a stream feeds to the encoder before it must finish
MaxChunks == 2
\* longest hypothesis, and widest context, handed to BuildDecoderInput on its own
MaxHypLen == 4
MaxCtx == 3
\* most per-stream states handed to StackStates
MaxBatch == 3

(* Program constants *)

\* constexpr int32_t kBatchSize = 1;
kBatchSize == 1

Streams == {"s1", "s2"}

-----------------------------------------------------------------------------
(* Ort::Value *)

NullValue == [null |-> TRUE, id |-> <<>>, shape |-> <<>>, data |-> <<>>]

Tensor(id, shape, data) == [null |-> FALSE, id |-> id, shape |-> shape, data |-> data]

RECURSIVE Product(_)
Product(shape) ==
  IF shape = <<>> THEN 1 ELSE Head(shape) * Product(Tail(shape))

\* std::fill(first, first + n, v) on a buffer
Fill(data, n, v) == [i \in 1..Len(data) |-> IF i <= n THEN v ELSE data[i]]

\* Ort::Value::CreateTensor<float>(allocator, shape, shape_len): a buffer of
\* Product(shape) floats whose content is whatever the allocator hands out
CreateTensor(id, shape, garbage) ==
  Tensor(id, shape, [i \in 1..Product(shape) |-> garbage])

-----------------------------------------------------------------------------
(* Metadata: strings are sequences of characters *)

EncoderKeys == <<"num_encoder_layers", "T", "decode_chunk_len", "rnn_hidden_size", "d_model">>
DecoderKeys == <<"vocab_size", "context_size">>

RECURSIVE SeqToSet(_)
SeqToSet(s) == IF s = <<>> THEN {} ELSE {Head(s)} \cup SeqToSet(Tail(s))

Keys == SeqToSet(EncoderKeys) \cup SeqToSet(DecoderKeys)

Digits == <<"0", "1", "2", "3", "4", "5", "6", "7", "8", "9">>

IsDigit(c) == \E d \in 1..Len(Digits) : Digits[d] = c

DigitVal(c) == (CHOOSE d \in 1..Len(Digits) : Digits[d] = c) - 1

RECURSIVE AtoiDigits(_, _)
AtoiDigits(s, acc) ==
  IF s = <<>> \/ ~IsDigit(Head(s)) THEN acc
  ELSE AtoiDigits(Tail(s), acc * 10 + DigitVal(Head(s)))

RECURSIVE atoi(_)
atoi(s) ==
  IF s = <<>> THEN 0
  ELSE IF Head(s) = " " THEN atoi(Tail(s))
  ELSE IF Head(s) = "-" THEN 0 - AtoiDigits(Tail(s), 0)
  ELSE IF Head(s) = "+" THEN AtoiDigits(Tail(s), 0)
  ELSE AtoiDigits(s, 0)

Missing == [present |-> FALSE, text |-> <<>>]
Present(text) == [present |-> TRUE, text |-> text]

\* the values a metadata key is given: absent, "0", "-1", and the decimal
\* strings of 1..MaxDim
MetaValues ==
  {Missing, Present(<<"0">>), Present(<<"-", "1">>)}
    \cup {Present(<<Digits[d + 1]>>) : d \in 1..MaxDim}

\* meta_data.LookupCustomMetadataMapAllocated(src_key, allocator)
LookupCustomMetadataMapAllocated(meta, src_key) == meta[src_key]

-----------------------------------------------------------------------------
(* The three graphs: the names each file declares (GetInputNames /         *)
(* GetOutputNames read them from the session)                              *)

EncoderGraph ==
  [kind |-> "encoder",
   inputs |-> <<"x", "h0", "c0">>,
   outputs |-> <<"encoder_out", "next_h0", "next_c0">>]

DecoderGraph ==
  [kind |-> "decoder", inputs |-> <<"y">>, outputs |-> <<"decoder_out">>]

JoinerGraph ==
  [kind |-> "joiner",
   inputs |-> <<"encoder_out", "decoder_out">>,
   outputs |-> <<"logit">>]

NoSession == [kind |-> "null", inputs |-> <<>>, outputs |-> <<>>]

-----------------------------------------------------------------------------
(* The model object and its constructor *)

\* the members before InitEncoder runs
NewModel ==
  [encoder_sess_ |-> NoSession, decoder_sess_ |-> NoSession, joiner_sess_ |-> NoSession,
   encoder_input_names_ |-> <<>>, encoder_output_names_ |-> <<>>,
   decoder_input_names_ |-> <<>>, decoder_output_names_ |-> <<>>,
   joiner_input_names_ |-> <<>>, joiner_output_names_ |-> <<>>,
   num_encoder_layers |-> 0, T |-> 0, decode_chunk_len |-> 0,
   rnn_hidden_size |-> 0, d_model |-> 0, vocab_size |-> 0, context_size |-> 0]

\* the macro with the test dst < 0
ReadMetaDataNonNegative(m, meta, src_key) ==
  LET value == LookupCustomMetadataMapAllocated(meta, src_key) IN
  IF ~value.present THEN [exit |-> TRUE, m |-> m]
  ELSE LET dst == atoi(value.text) IN
       [exit |-> dst < 0, m |-> [m EXCEPT ![src_key] = dst]]

\* SHERPA_ONNX_READ_META_DATA(dst, src_key): dst is the member named src_key
SHERPA_ONNX_READ_META_DATA(m, meta, src_key) ==
  LET value == LookupCustomMetadataMapAllocated(meta, src_key) IN
  IF ~value.present THEN [exit |-> TRUE, m |-> m]
  ELSE LET dst == atoi(value.text) IN
       [exit |-> dst <= 0, m |-> [m EXCEPT ![src_key] = dst]]

\* the reads of one Init function, in order; the first exit(-1) ends them
RECURSIVE ReadAll(_, _, _)
ReadAll(m, meta, keys) ==
  IF keys = <<>> THEN [exit |-> FALSE, m |-> m]
  ELSE LET r == SHERPA_ONNX_READ_META_DATA(m, meta, Head(keys)) IN
       IF r.exit THEN r ELSE ReadAll(r.m, meta, Tail(keys))

\* InitEncoder(filename) .. InitJoiner(filename) on the members: the session,
\* its names, then the metadata reads
InitEncoderMembers(m, meta) ==
  ReadAll([m EXCEPT !.encoder_sess_ = EncoderGraph,
                    !.encoder_input_names_ = EncoderGraph.inputs,
                    !.encoder_output_names_ = EncoderGraph.outputs],
          meta, EncoderKeys)

InitDecoderMembers(m, meta) ==
  ReadAll([m EXCEPT !.decoder_sess_ = DecoderGraph,
                    !.decoder_input_names_ = DecoderGraph.inputs,
                    !.decoder_output_names_ = DecoderGraph.outputs],
          meta, DecoderKeys)

InitJoinerMembers(m, meta) ==
  [exit |-> FALSE,
   m |-> [m EXCEPT !.joiner_sess_ = JoinerGraph,
                   !.joiner_input_names_ = JoinerGraph.inputs,
                   !.joiner_output_names_ = JoinerGraph.outputs]]

InitEncoder ==
  /\ pc = "start"
  /\ LET r == InitEncoderMembers(model, meta_data)
     IN /\ model' = r.m
        /\ pc' = IF r.exit THEN "exited" ELSE "encoder"
  /\ UNCHANGED <<meta_data, model0, active, streams, log, bdi, stk>>

InitDecoder ==
  /\ pc = "encoder"
  /\ LET r == InitDecoderMembers(model, meta_data)
     IN /\ model' = r.m
        /\ pc' = IF r.exit THEN "exited" ELSE "decoder"
  /\ UNCHANGED <<meta_data, model0, active, streams, log, bdi, stk>>

InitJoiner ==
  /\ pc = "decoder"
  /\ model' = InitJoinerMembers(model, meta_data).m
  /\ model0' = model'
  /\ pc' = "constructed"
  /\ UNCHANGED <<meta_data, active, streams, log, bdi, stk>>

-----------------------------------------------------------------------------
(* The runtime: Ort::Session::Run.  g holds the dimensions the graphs were *)
(* exported with; ok is whether the runtime itself succeeds on this        *)
(* execution.  Outputs are fresh values, one per output name, in order.    *)

FeatureValues == {0, 1}

\* one chunk of features: [kBatchSize, T] values
FeatureChunk(tag, g, f) ==
  Tensor([tag |-> tag, out |-> "x"], <<kBatchSize, g.T>>, [i \in 1..(kBatchSize * g.T) |-> f])

Uniform(id, shape, v) == Tensor(id, shape, [i \in 1..Product(shape) |-> v])

First(t) == IF t.data = <<>> THEN 0 ELSE t.data[1]

RECURSIVE Sum(_)
Sum(seq) == IF seq = <<>> THEN 0 ELSE Head(seq) + Sum(Tail(seq))

\* the shapes a graph accepts for its inputs
ExpectedShapes(sess, g) ==
  CASE sess.kind = "encoder" ->
         <<<<kBatchSize, g.T>>,
           <<g.num_encoder_layers, kBatchSize, g.d_model>>,
           <<g.num_encoder_layers, kBatchSize, g.rnn_hidden_size>>>>
    [] sess.kind = "decoder" -> <<<<kBatchSize, g.context_size>>>>
    [] sess.kind = "joiner" -> <<<<kBatchSize, g.d_model>>, <<kBatchSize, g.d_model>>>>
    [] OTHER -> <<>>

\* what the graph computes from accepted inputs
GraphOutputs(sess, g, inputs, tag) ==
  CASE sess.kind = "encoder" ->
         LET f == First(inputs[1])
             h == First(inputs[2])
             c == First(inputs[3])
         IN <<Uniform([tag |-> tag, out |-> sess.outputs[1]],
                      <<kBatchSize, g.d_model>>, (f + h + c) % 2),
              Uniform([tag |-> tag, out |-> sess.outputs[2]],
                      inputs[2].shape, (h + f + 1) % 2),
              Uniform([tag |-> tag, out |-> sess.outputs[3]],
                      inputs[3].shape, (c + h) % 2)>>
    [] sess.kind = "decoder" ->
         <<Uniform([tag |-> tag, out |-> sess.outputs[1]],
                   <<kBatchSize, g.d_model>>, Sum(inputs[1].data) % 2)>>
    [] sess.kind = "joiner" ->
         <<Tensor([tag |-> tag, out |-> sess.outputs[1]],
                  <<kBatchSize, g.vocab_size>>,
                  [i \in 1..(kBatchSize * g.vocab_size) |->
                     (First(inputs[1]) + First(inputs[2]) + i) % 2])>>
    [] OTHER -> <<>>

\* Run(run_options, input_names, input_values, input_count, output_names,
\* output_count): throws unless the runtime succeeds, the names are the
\* graph's and every input is a value of the shape the graph accepts
SessionRun(sess, input_names, inputs, output_names, g, ok, tag) ==
  LET accepted ==
        /\ ok
        /\ sess.kind # "null"
        /\ input_names = sess.inputs
        /\ output_names = sess.outputs
        /\ Len(inputs) = Len(input_names)
        /\ \A i \in 1..Len(inputs) :
             /\ ~inputs[i].null
             /\ inputs[i].shape = ExpectedShapes(sess, g)[i]
  IN IF accepted
     THEN [threw |-> FALSE, out |-> GraphOutputs(sess, g, inputs, tag)]
     ELSE [threw |-> TRUE, out |-> <<>>]

-----------------------------------------------------------------------------
(* The methods.  m is the object (this); every result carries the object   *)
(* as the call leaves it.  tag names the call, and with it the values the  *)
(* call creates.                                                           *)

StackStates(m, states) ==
  [m |-> m, x |-> Tensor(<<>>, <<>>, <<>>)]

UnStackStates(m, states) ==
  [m |-> m, ans |-> <<>>]

\* GetEncoderInitStates filling c over the element count of h
GetEncoderInitStatesShortFill(m, garbage, tag) ==
  LET h_shape == <<m.num_encoder_layers, kBatchSize, m.d_model>>
      h0 == CreateTensor([tag |-> tag, out |-> "h"], h_shape, garbage)
      h == [h0 EXCEPT !.data =
              Fill(h0.data, m.num_encoder_layers * kBatchSize * m.d_model, 0)]
      c_shape == <<m.num_encoder_layers, kBatchSize, m.rnn_hidden_size>>
      c0 == CreateTensor([tag |-> tag, out |-> "c"], c_shape, garbage)
      c == [c0 EXCEPT !.data =
              Fill(c0.data, m.num_encoder_layers * kBatchSize * m.d_model, 0)]
  IN [m |-> m, states |-> <<h, c>>]

GetEncoderInitStates(m, garbage, tag) ==
  LET h_shape == <<m.num_encoder_layers, kBatchSize, m.d_model>>
      h0 == CreateTensor([tag |-> tag, out |-> "h"], h_shape, garbage)
      h == [h0 EXCEPT !.data =
              Fill(h0.data, m.num_encoder_layers * kBatchSize * m.d_model, 0)]
      c_shape == <<m.num_encoder_layers, kBatchSize, m.rnn_hidden_size>>
      c0 == CreateTensor([tag |-> tag, out |-> "c"], c_shape, garbage)
      c == [c0 EXCEPT !.data =
              Fill(c0.data, m.num_encoder_layers * kBatchSize * m.rnn_hidden_size, 0)]
  IN [m |-> m, states |-> <<h, c>>]

\* RunEncoder with next_states taken from encoder_inputs[1], [2]
RunEncoderReuse(m, features, states, g, ok, tag) ==
  LET encoder_inputs == <<features, states[1], states[2]>>
      moved == <<NullValue, NullValue>>
      r == SessionRun(m.encoder_sess_, m.encoder_input_names_, encoder_inputs,
                      m.encoder_output_names_, g, ok, tag)
  IN IF r.threw
     THEN [m |-> m, threw |-> TRUE, runs |-> <<r.threw>>, inputs |-> encoder_inputs,
           states |-> moved, encoder_out |-> NullValue, next_states |-> <<>>]
     ELSE [m |-> m, threw |-> FALSE, runs |-> <<r.threw>>, inputs |-> encoder_inputs,
           states |-> moved, encoder_out |-> r.out[1],
           next_states |-> <<encoder_inputs[2], encoder_inputs[3]>>]

\* RunEncoder with next_states taken from encoder_out[2], [1]
RunEncoderSwapped(m, features, states, g, ok, tag) ==
  LET encoder_inputs == <<features, states[1], states[2]>>
      moved == <<NullValue, NullValue>>
      r == SessionRun(m.encoder_sess_, m.encoder_input_names_, encoder_inputs,
                      m.encoder_output_names_, g, ok, tag)
  IN IF r.threw
     THEN [m |-> m, threw |-> TRUE, runs |-> <<r.threw>>, inputs |-> encoder_inputs,
           states |-> moved, encoder_out |-> NullValue, next_states |-> <<>>]
     ELSE [m |-> m, threw |-> FALSE, runs |-> <<r.threw>>, inputs |-> encoder_inputs,
           states |-> moved, encoder_out |-> r.out[1],
           next_states |-> <<r.out[3], r.out[2]>>]

\* RunEncoder that hands the graph views of states[0], states[1] and leaves
\* the caller's vector as it was
RunEncoderKeepsStates(m, features, states, g, ok, tag) ==
  LET encoder_inputs == <<features, states[1], states[2]>>
      r == SessionRun(m.encoder_sess_, m.encoder_input_names_, encoder_inputs,
                      m.encoder_output_names_, g, ok, tag)
  IN IF r.threw
     THEN [m |-> m, threw |-> TRUE, runs |-> <<r.threw>>, inputs |-> encoder_inputs,
           states |-> states, encoder_out |-> NullValue, next_states |-> <<>>]
     ELSE [m |-> m, threw |-> FALSE, runs |-> <<r.threw>>, inputs |-> encoder_inputs,
           states |-> states, encoder_out |-> r.out[1],
           next_states |-> <<r.out[2], r.out[3]>>]

\* RunEncoder that moves the member encoder_input_names_ into the call
RunEncoderTakesNames(m, features, states, g, ok, tag) ==
  LET encoder_inputs == <<features, states[1], states[2]>>
      moved == <<NullValue, NullValue>>
      left == [m EXCEPT !.encoder_input_names_ = <<>>]
      r == SessionRun(m.encoder_sess_, m.encoder_input_names_, encoder_inputs,
                      m.encoder_output_names_, g, ok, tag)
  IN IF r.threw
     THEN [m |-> left, threw |-> TRUE, runs |-> <<r.threw>>, inputs |-> encoder_inputs,
           states |-> moved, encoder_out |-> NullValue, next_states |-> <<>>]
     ELSE [m |-> left, threw |-> FALSE, runs |-> <<r.threw>>, inputs |-> encoder_inputs,
           states |-> moved, encoder_out |-> r.out[1],
           next_states |-> <<r.out[2], r.out[3]>>]

\* states is the caller's vector, passed by reference: the result's states is
\* the vector as the call leaves it
RunEncoder(m, features, states, g, ok, tag) ==
  LET encoder_inputs == <<features, states[1], states[2]>>
      moved == <<NullValue, NullValue>>
      r == SessionRun(m.encoder_sess_, m.encoder_input_names_, encoder_inputs,
                      m.encoder_output_names_, g, ok, tag)
  IN IF r.threw
     THEN [m |-> m, threw |-> TRUE, runs |-> <<r.threw>>, inputs |-> encoder_inputs,
           states |-> moved, encoder_out |-> NullValue, next_states |-> <<>>]
     ELSE [m |-> m, threw |-> FALSE, runs |-> <<r.threw>>, inputs |-> encoder_inputs,
           states |-> moved, encoder_out |-> r.out[1],
           next_states |-> <<r.out[2], r.out[3]>>]

\* BuildDecoderInput with the tensor pointing at hyp.data()
BuildDecoderInputFromFront(m, hyp, oob, tag) ==
  LET first == 0
      shape == <<1, m.context_size>>
  IN [m |-> m, hyp |-> hyp, first |-> first,
      value |-> Tensor([tag |-> tag, out |-> "y"], shape,
                       [i \in 1..m.context_size |->
                          IF first + i <= Len(hyp) THEN hyp[first + i] ELSE oob])]

\* the tensor points into hyp's buffer at hyp.data() + hyp.size() - context_size_:
\* first is that offset; an element before the buffer reads as oob
BuildDecoderInput(m, hyp, oob, tag) ==
  LET first == Len(hyp) - m.context_size
      shape == <<1, m.context_size>>
  IN [m |-> m, hyp |-> hyp, first |-> first,
      value |-> Tensor([tag |-> tag, out |-> "y"], shape,
                       [i \in 1..m.context_size |->
                          IF first + i >= 1 THEN hyp[first + i] ELSE oob])]

RunDecoder(m, decoder_input, g, ok, tag) ==
  LET r == SessionRun(m.decoder_sess_, m.decoder_input_names_, <<decoder_input>>,
                      m.decoder_output_names_, g, ok, tag)
  IN IF r.threw
     THEN [m |-> m, threw |-> TRUE, runs |-> <<r.threw>>, value |-> NullValue]
     ELSE [m |-> m, threw |-> FALSE, runs |-> <<r.threw>>, value |-> r.out[1]]

\* RunJoiner that runs the graph a second time when the first run throws
RunJoinerRetry(m, encoder_out, decoder_out, g, ok, tag) ==
  LET joiner_input == <<encoder_out, decoder_out>>
      r1 == SessionRun(m.joiner_sess_, m.joiner_input_names_, joiner_input,
                       m.joiner_output_names_, g, ok, tag)
      r2 == SessionRun(m.joiner_sess_, m.joiner_input_names_, joiner_input,
                       m.joiner_output_names_, g, ok, tag)
  IN IF ~r1.threw
     THEN [m |-> m, threw |-> FALSE, runs |-> <<r1.threw>>, value |-> r1.out[1]]
     ELSE IF r2.threw
     THEN [m |-> m, threw |-> TRUE, runs |-> <<r1.threw, r2.threw>>, value |-> NullValue]
     ELSE [m |-> m, threw |-> FALSE, runs |-> <<r1.threw, r2.threw>>, value |-> r2.out[1]]

RunJoiner(m, encoder_out, decoder_out, g, ok, tag) ==
  LET joiner_input == <<encoder_out, decoder_out>>
      r == SessionRun(m.joiner_sess_, m.joiner_input_names_, joiner_input,
                      m.joiner_output_names_, g, ok, tag)
  IN IF r.threw
     THEN [m |-> m, threw |-> TRUE, runs |-> <<r.threw>>, value |-> NullValue]
     ELSE [m |-> m, threw |-> FALSE, runs |-> <<r.threw>>, value |-> r.out[1]]

-----------------------------------------------------------------------------
(* A stream: the caller's variables, and the calls it makes per chunk      *)
(* (Uninitialized -> Streaming -> Finished; Failed once a call threw).     *)
(* last is history: what the stream's latest call was given and gave back. *)

NoCall ==
  [fn |-> "none", threw |-> FALSE, runs |-> <<>>, args |-> <<>>, inputs |-> <<>>,
   states_after |-> <<>>, value |-> NullValue, next_states |-> <<>>]

NewStream ==
  [phase |-> "Uninitialized", step |-> "none", chunks |-> 0,
   states |-> <<>>, hyp |-> <<>>,
   encoder_out |-> NullValue, decoder_input |-> NullValue,
   decoder_out |-> NullValue, logit |-> NullValue,
   passed |-> <<>>, returned |-> <<>>, last |-> NoCall]

\* a new stream: the initial recurrent state, and a hypothesis padded with
\* context_size blanks
DoStart(m, st, ev, g, tag) ==
  LET r == GetEncoderInitStates(m, ev.arg, tag) IN
  [m |-> r.m,
   st |-> [st EXCEPT !.phase = "Streaming", !.step = "encoder",
                     !.states = r.states,
                     !.hyp = [i \in 1..m.context_size |-> 0],
                     !.returned = <<r.states>>,
                     !.last = [NoCall EXCEPT !.fn = "GetEncoderInitStates",
                                             !.next_states = r.states]]]

\* one chunk into the encoder; the caller keeps next_states as its states
DoRunEncoder(m, st, ev, g, tag) ==
  LET features == FeatureChunk(tag, g, ev.arg)
      r == RunEncoder(m, features, st.states, g, ev.ok, tag)
      call == [NoCall EXCEPT !.fn = "RunEncoder", !.threw = r.threw, !.runs = r.runs,
                             !.args = <<features, st.states[1], st.states[2]>>,
                             !.inputs = r.inputs, !.states_after = r.states,
                             !.value = r.encoder_out, !.next_states = r.next_states]
  IN [m |-> r.m,
      st |-> IF r.threw
             THEN [st EXCEPT !.phase = "Failed", !.step = "none",
                             !.states = r.states,
                             !.passed = Append(@, st.states), !.last = call]
             ELSE [st EXCEPT !.step = "build", !.chunks = @ + 1,
                             !.states = r.next_states,
                             !.encoder_out = r.encoder_out,
                             !.passed = Append(@, st.states),
                             !.returned = Append(@, r.next_states),
                             !.last = call]]

DoBuildDecoderInput(m, st, ev, g, tag) ==
  LET r == BuildDecoderInput(m, st.hyp, 0, tag) IN
  [m |-> r.m,
   st |-> [st EXCEPT !.step = "decoder", !.hyp = r.hyp, !.decoder_input = r.value,
                     !.last = [NoCall EXCEPT !.fn = "BuildDecoderInput",
                                             !.value = r.value]]]

DoRunDecoder(m, st, ev, g, tag) ==
  LET r == RunDecoder(m, st.decoder_input, g, ev.ok, tag)
      call == [NoCall EXCEPT !.fn = "RunDecoder", !.threw = r.threw, !.runs = r.runs,
                             !.args = <<st.decoder_input>>, !.value = r.value]
  IN [m |-> r.m,
      st |-> IF r.threw
             THEN [st EXCEPT !.phase = "Failed", !.step = "none",
                             !.decoder_input = NullValue, !.last = call]
             ELSE [st EXCEPT !.step = "joiner", !.decoder_input = NullValue,
                             !.decoder_out = r.value, !.last = call]]

DoRunJoiner(m, st, ev, g, tag) ==
  LET r == RunJoiner(m, st.encoder_out, st.decoder_out, g, ev.ok, tag)
      call == [NoCall EXCEPT !.fn = "RunJoiner", !.threw = r.threw, !.runs = r.runs,
                             !.args = <<st.encoder_out, st.decoder_out>>,
                             !.value = r.value]
  IN [m |-> r.m,
      st |-> IF r.threw
             THEN [st EXCEPT !.phase = "Failed", !.step = "none",
                             !.encoder_out = NullValue, !.decoder_out = NullValue,
                             !.last = call]
             ELSE [st EXCEPT !.step = "extend",
                             !.encoder_out = NullValue, !.decoder_out = NullValue,
                             !.logit = r.value, !.last = call]]

\* the index of the first largest element, from 0
ArgMax(data) ==
  IF data = <<>> THEN 0 ELSE
  (CHOOSE i \in 1..Len(data) :
     /\ \A j \in 1..Len(data) : data[j] <= data[i]
     /\ \A j \in 1..(i - 1) : data[j] < data[i]) - 1

\* greedy search: the token with the largest logit extends the hypothesis
DoExtend(m, st, ev, g, tag) ==
  [m |-> m,
   st |-> [st EXCEPT !.step = "encoder", !.hyp = Append(@, ArgMax(st.logit.data)),
                     !.logit = NullValue,
                     !.last = [NoCall EXCEPT !.fn = "Extend"]]]

DoFinish(m, st, ev, g, tag) ==
  [m |-> m,
   st |-> [st EXCEPT !.phase = "Finished", !.step = "none",
                     !.last = [NoCall EXCEPT !.fn = "Finish"]]]

Apply(m, st, ev, g, tag) ==
  CASE ev.fn = "GetEncoderInitStates" -> DoStart(m, st, ev, g, tag)
    [] ev.fn = "RunEncoder" -> DoRunEncoder(m, st, ev, g, tag)
    [] ev.fn = "BuildDecoderInput" -> DoBuildDecoderInput(m, st, ev, g, tag)
    [] ev.fn = "RunDecoder" -> DoRunDecoder(m, st, ev, g, tag)
    [] ev.fn = "RunJoiner" -> DoRunJoiner(m, st, ev, g, tag)
    [] ev.fn = "Extend" -> DoExtend(m, st, ev, g, tag)
    [] OTHER -> DoFinish(m, st, ev, g, tag)

Tag(s, n) == [stream |-> s, call |-> n]

Event(fn, arg, ok) == [fn |-> fn, arg |-> arg, ok |-> ok]

\* what the log keeps of a call: its inputs, not what the allocator's memory held
Logged(ev) == IF ev.fn = "GetEncoderInitStates" THEN [ev EXCEPT !.arg = 0] ELSE ev

\* stream s makes the call ev on the shared model
Call(s, ev) ==
  LET r == Apply(model, streams[s], ev, model0, Tag(s, Len(log[s]))) IN
  /\ model' = r.m
  /\ streams' = [streams EXCEPT ![s] = r.st]
  /\ log' = [log EXCEPT ![s] = Append(@, Logged(ev))]
  /\ UNCHANGED <<meta_data, pc, model0, active, bdi, stk>>

Ready(s, step) ==
  /\ pc = "constructed"
  /\ s \in active
  /\ streams[s].phase = "Streaming"
  /\ streams[s].step = step

StreamStart(s) ==
  /\ pc = "constructed"
  /\ s \in active
  /\ streams[s].phase = "Uninitialized"
  /\ \E garbage \in FeatureValues : Call(s, Event("GetEncoderInitStates", garbage, TRUE))

StreamRunEncoder(s) ==
  /\ Ready(s, "encoder")
  /\ streams[s].chunks < MaxChunks
  /\ \E f \in FeatureValues, ok \in BOOLEAN : Call(s, Event("RunEncoder", f, ok))

StreamBuildDecoderInput(s) ==
  /\ Ready(s, "build")
  /\ Call(s, Event("BuildDecoderInput", 0, TRUE))

StreamRunDecoder(s) ==
  /\ Ready(s, "decoder")
  /\ \E ok \in BOOLEAN : Call(s, Event("RunDecoder", 0, ok))

StreamRunJoiner(s) ==
  /\ Ready(s, "joiner")
  /\ \E ok \in BOOLEAN : Call(s, Event("RunJoiner", 0, ok))

StreamExtend(s) ==
  /\ Ready(s, "extend")
  /\ Call(s, Event("Extend", 0, TRUE))

StreamFinish(s) ==
  /\ Ready(s, "encoder")
  /\ Call(s, Event("Finish", 0, TRUE))

StreamNext ==
  \E s \in Streams :
    \/ StreamStart(s)
    \/ StreamRunEncoder(s)
    \/ StreamBuildDecoderInput(s)
    \/ StreamRunDecoder(s)
    \/ StreamRunJoiner(s)
    \/ StreamExtend(s)
    \/ StreamFinish(s)

-----------------------------------------------------------------------------------------------------------------------------------------------------
(* The specifications *)

IdleBdi == [done |-> FALSE, hyp |-> <<>>, first |-> 0, value |-> NullValue, hyp_after |-> <<>>]
IdleStk == [step |-> "idle", states |-> <<>>, x |-> NullValue, ans |-> <<>>]

\* one stream on a model under construction from any metadata
Init ==
  /\ meta_data \in [Keys -> MetaValues]
  /\ pc = "start"
  /\ model = NewModel
  /\ model0 = NewModel
  /\ active = {"s1"}
  /\ streams = [s \in Streams |-> NewStream]
  /\ log = [s \in Streams |-> <<>>]
  /\ bdi = IdleBdi
  /\ stk = IdleStk

Next == InitEncoder \/ InitDecoder \/ InitJoiner \/ StreamNext

Spec == Init /\ [][Next]_vars

\* the constructor run to its end on metadata that passes every read
Construct(meta) ==
  InitJoinerMembers(
    InitDecoderMembers(InitEncoderMembers(NewModel, meta).m, meta).m, meta).m

\* a 3-layer encoder with d_model 4 and rnn_hidden_size 8
ScenarioDims ==
  [num_encoder_layers |-> 3, T |-> 2, decode_chunk_len |-> 2, rnn_hidden_size |-> 8,
   d_model |-> 4, vocab_size |-> 2, context_size |-> 2]

ScenarioMeta == [k \in Keys |-> Present(<<Digits[ScenarioDims[k] + 1]>>)]

\* every stream on one constructed model
InitMulti ==
  /\ meta_data = ScenarioMeta
  /\ pc = "constructed"
  /\ model = Construct(ScenarioMeta)
  /\ model0 = model
  /\ active = Streams
  /\ streams = [s \in Streams |-> NewStream]
  /\ log = [s \in Streams |-> <<>>]
  /\ bdi = IdleBdi
  /\ stk = IdleStk

SpecMulti == InitMulti /\ [][StreamNext]_vars

(* BuildDecoderInput on any hypothesis *)

RECURSIVE SeqsUpTo(_, _)
SeqsUpTo(S, n) ==
  IF n = 0 THEN {<<>>}
  ELSE LET shorter == SeqsUpTo(S, n - 1) IN
       shorter \cup {Append(q, x) : q \in {r \in shorter : Len(r) = n - 1}, x \in S}

\* what the memory before the hypothesis' buffer may hold
OobValues == {-1, 0}

InitBuild ==
  /\ \E c \in 1..MaxCtx :
       meta_data = [ScenarioMeta EXCEPT !["context_size"] = Present(<<Digits[c + 1]>>)]
  /\ pc = "constructed"
  /\ model = Construct(meta_data)
  /\ model0 = model
  /\ active = {}
  /\ streams = [s \in Streams |-> NewStream]
  /\ log = [s \in Streams |-> <<>>]
  /\ \E hyp \in SeqsUpTo(0..(model.vocab_size - 1), MaxHypLen) :
       bdi = [IdleBdi EXCEPT !.hyp = hyp]
  /\ stk = IdleStk

BuildStep ==
  /\ ~bdi.done
  /\ \E oob \in OobValues :
       LET r == BuildDecoderInput(model, bdi.hyp, oob, "build") IN
       /\ model' = r.m
       /\ bdi' = [bdi EXCEPT !.done = TRUE, !.first = r.first, !.value = r.value,
                             !.hyp_after = r.hyp]
  /\ UNCHANGED <<meta_data, pc, model0, active, streams, log, stk>>

SpecBuild == InitBuild /\ [][BuildStep]_vars

(* StackStates then UnStackStates on any per-stream states *)

StateTensors ==
  {Uniform([layers |-> l, v |-> v], <<l, kBatchSize, 1>>, v) :
     l \in 1..MaxDim, v \in FeatureValues}

InitStack ==
  /\ meta_data = ScenarioMeta
  /\ pc = "constructed"
  /\ model = Construct(ScenarioMeta)
  /\ model0 = model
  /\ active = {}
  /\ streams = [s \in Streams |-> NewStream]
  /\ log = [s \in Streams |-> <<>>]
  /\ bdi = IdleBdi
  /\ \E states \in SeqsUpTo(StateTensors, MaxBatch) :
       stk = [IdleStk EXCEPT !.step = "drawn", !.states = states]

StackStep ==
  /\ stk.step = "drawn"
  /\ LET r == StackStates(model, stk.states) IN
     /\ model' = r.m
     /\ stk' = [stk EXCEPT !.step = "stacked", !.x = r.x]
  /\ UNCHANGED <<meta_data, pc, model0, active, streams, log, bdi>>

UnStackStep ==
  /\ stk.step = "stacked"
  /\ LET r == UnStackStates(model, stk.x) IN
     /\ model' = r.m
     /\ stk' = [stk EXCEPT !.step = "unstacked", !.ans = r.ans]
  /\ UNCHANGED <<meta_data, pc, model0, active, streams, log, bdi>>

NextStack == StackStep \/ UnStackStep

SpecStack == InitStack /\ [][NextStack]_vars

-----------------------------------------------------------------------------
(* The claims *)

Ids(values) == {values[i].id : i \in 1..Len(values)}

RECURSIVE Flatten(_)
Flatten(seqs) == IF seqs = <<>> THEN <<>> ELSE Head(seqs) \o Flatten(Tail(seqs))

IsRun(fn) == fn \in {"RunEncoder", "RunDecoder", "RunJoiner"}

\* C1: UnStackStates(StackStates(states)) is states: as many elements, in the
\* same order, each with the same shape and values
C1_RoundTrip ==
  stk.step = "unstacked" =>
    /\ Len(stk.ans) = Len(stk.states)
    /\ \A i \in 1..Len(stk.states) :
         /\ stk.ans[i].shape = stk.states[i].shape
         /\ stk.ans[i].data = stk.states[i].data

\* C2: per stream, the state passed to the k-th RunEncoder call is the one the
\* call before it returned (GetEncoderInitStates' for the first), no state is
\* passed twice, and the caller holds no state it has passed in
C2_StateChain ==
  \A s \in Streams :
    LET st == streams[s]
        given == Flatten(st.passed)
    IN /\ Len(st.passed) <= Len(st.returned)
       /\ \A k \in 1..Len(st.passed) : st.passed[k] = st.returned[k]
       /\ \A i, j \in 1..Len(given) : i # j => given[i].id # given[j].id
       /\ \A i \in 1..Len(st.states) :
            ~st.states[i].null => st.states[i].id \notin Ids(given)
       /\ st.phase = "Streaming" =>
            /\ Len(st.returned) = Len(st.passed) + 1
            /\ st.states = st.returned[Len(st.returned)]

C2_Witness ==
  \E s \in Streams :
    /\ Len(streams[s].passed) = 2
    /\ Len(streams[s].returned) = 3
    /\ streams[s].last.fn = "RunEncoder"

BadValue(v) == ~v.present \/ atoi(v.text) <= 0

BadKeys(keys) == {k \in SeqToSet(keys) : BadValue(meta_data[k])}

\* C3: the constructor exits if a required key is missing or parses to a value
\* <= 0, before any stream has made a call and leaving no stream state; a
\* model whose construction completes has all seven dimensions positive
C3_FatalMetadata ==
  /\ pc = "constructed" =>
       /\ BadKeys(EncoderKeys) = {} /\ BadKeys(DecoderKeys) = {}
       /\ \A k \in Keys : model[k] > 0
  /\ pc \in {"encoder", "decoder"} => BadKeys(EncoderKeys) = {}
  /\ pc = "decoder" => BadKeys(DecoderKeys) = {}
  /\ pc = "exited" => BadKeys(EncoderKeys) \cup BadKeys(DecoderKeys) # {}
  /\ pc # "constructed" =>
       \A s \in Streams : streams[s] = NewStream /\ log[s] = <<>>
  /\ ~meta_data["vocab_size"].present =>
       /\ pc \in {"start", "encoder", "exited"}
       /\ model.joiner_sess_ = NoSession

C3_Witness ==
  /\ pc = "exited"
  /\ ~meta_data["vocab_size"].present
  /\ BadKeys(EncoderKeys) = {}
  /\ model.encoder_sess_ = EncoderGraph

\* C4: for a hypothesis of at least context_size tokens, BuildDecoderInput
\* returns a [1, context_size] tensor holding the last context_size tokens in
\* order, and leaves the hypothesis as it was
C4_LastContext ==
  (bdi.done /\ Len(bdi.hyp) >= model.context_size) =>
    /\ ~bdi.value.null
    /\ bdi.value.shape = <<1, model.context_size>>
    /\ bdi.value.data =
         SubSeq(bdi.hyp, Len(bdi.hyp) - model.context_size + 1, Len(bdi.hyp))
    /\ bdi.hyp_after = bdi.hyp

C4_Witness ==
  /\ bdi.done
  /\ model.context_size = 3
  /\ bdi.hyp = <<1, 0, 0, 0>>
  /\ bdi.value.shape = <<1, 3>>
  /\ bdi.value.data = <<0, 0, 0>>

\* C5: BuildDecoderInput on a hypothesis shorter than context_size is rejected
\* or guarded: it yields no tensor that reaches outside the hypothesis
C5_ShortRejected ==
  (bdi.done /\ Len(bdi.hyp) < model.context_size) =>
    \/ bdi.value.null
    \/ bdi.first >= 0

AllZero(t, n) == Len(t.data) = n /\ \A i \in 1..n : t.data[i] = 0

\* C6: GetEncoderInitStates returns (hidden, cell): hidden of shape
\* [num_encoder_layers, 1, d_model], cell of shape
\* [num_encoder_layers, 1, rnn_hidden_size], every element zero
C6_InitStates ==
  \A s \in Streams :
    streams[s].last.fn = "GetEncoderInitStates" =>
      LET states == streams[s].last.next_states IN
      /\ Len(states) = 2
      /\ ~states[1].null /\ ~states[2].null
      /\ states[1].shape = <<model.num_encoder_layers, 1, model.d_model>>
      /\ states[2].shape = <<model.num_encoder_layers, 1, model.rnn_hidden_size>>
      /\ AllZero(states[1], model.num_encoder_layers * model.d_model)
      /\ AllZero(states[2], model.num_encoder_layers * model.rnn_hidden_size)

C6_Witness ==
  \E s \in Streams :
    /\ streams[s].last.fn = "GetEncoderInitStates"
    /\ model.num_encoder_layers = 2
    /\ model.d_model = 1
    /\ model.rnn_hidden_size = 2
    /\ Len(streams[s].states[2].data) = 4

RECURSIVE Replay(_, _, _, _, _, _)
Replay(s, m, st, evs, n, garbage) ==
  IF evs = <<>> THEN st
  ELSE LET ev == IF Head(evs).fn = "GetEncoderInitStates"
                 THEN [Head(evs) EXCEPT !.arg = garbage] ELSE Head(evs)
           r == Apply(m, st, ev, model0, Tag(s, n))
       IN Replay(s, r.m, r.st, Tail(evs), n + 1, garbage)

\* C7: with the streams' calls interleaved in any order, no call changes the
\* model as the constructor left it, and each stream's variables are what its
\* own calls alone, in their order, make of a new stream
C7_Isolation ==
  /\ pc = "constructed" => model = model0
  /\ \A s \in Streams :
       \E garbage \in FeatureValues :
         streams[s] = Replay(s, model0, NewStream, log[s], 0, garbage)

C7_Witness ==
  /\ streams["s1"].chunks = 2
  /\ streams["s1"].step = "joiner"
  /\ streams["s2"].chunks = 1
  /\ streams["s2"].step = "decoder"
  /\ streams["s1"].states # streams["s2"].states

\* C8: a RunEncoder / RunDecoder / RunJoiner call executes its graph once; if
\* that execution fails the call throws to its caller and returns no value,
\* and if it succeeds the call returns
C8_FailureSurfaced ==
  \A s \in Streams :
    LET call == streams[s].last IN
    IsRun(call.fn) =>
      /\ Len(call.runs) = 1
      /\ call.threw = call.runs[1]
      /\ ~log[s][Len(log[s])].ok => call.threw
      /\ call.threw =>
           /\ call.value.null
           /\ call.next_states = <<>>
           /\ streams[s].phase = "Failed"
      /\ ~call.threw => ~call.value.null

C8_Witness ==
  \E s \in Streams :
    /\ streams[s].last.fn = "RunJoiner"
    /\ streams[s].last.threw
    /\ streams[s].chunks = 2

\* C9: RunEncoder feeds (features, states[0], states[1]) as inputs 0, 1, 2 and
\* returns output 0 as encoder_out and outputs 1, 2 as next_states; a
\* streaming stream's state is (hidden, cell) of shapes
\* [num_encoder_layers, 1, d_model] and [num_encoder_layers, 1, rnn_hidden_size]
C9_EncoderWiring ==
  \A s \in Streams :
    LET st == streams[s]
        call == st.last
    IN /\ call.fn = "RunEncoder" =>
            /\ call.inputs = call.args
            /\ ~call.threw =>
                 /\ call.value.id.out = EncoderGraph.outputs[1]
                 /\ Len(call.next_states) = 2
                 /\ call.next_states[1].id.out = EncoderGraph.outputs[2]
                 /\ call.next_states[2].id.out = EncoderGraph.outputs[3]
       /\ st.phase = "Streaming" =>
            /\ Len(st.states) = 2
            /\ st.states[1].shape = <<model.num_encoder_layers, 1, model.d_model>>
            /\ st.states[2].shape = <<model.num_encoder_layers, 1, model.rnn_hidden_size>>

C9_Witness ==
  \E s \in Streams :
    /\ streams[s].chunks = 2
    /\ streams[s].last.fn = "RunEncoder"
    /\ streams[s].states[1].shape = <<2, 1, 1>>
    /\ streams[s].states[2].shape = <<2, 1, 2>>

\* C10: once RunEncoder has been entered the caller's vector has two empty
\* elements; if the call returns, next_states has two elements and is the
\* stream's only state: the values passed in are nowhere among the caller's
\* variables
C10_MovedOut ==
  \A s \in Streams :
    LET st == streams[s]
        call == st.last
    IN call.fn = "RunEncoder" =>
         /\ call.states_after = <<NullValue, NullValue>>
         /\ call.threw => st.states = <<NullValue, NullValue>>
         /\ ~call.threw =>
              /\ Len(call.next_states) = 2
              /\ ~call.next_states[1].null /\ ~call.next_states[2].null
              /\ st.states = call.next_states
              /\ {call.args[2].id, call.args[3].id}
                   \cap (Ids(st.states) \cup {st.encoder_out.id}) = {}

C10_Witness ==
  \E s \in Streams :
    /\ streams[s].last.fn = "RunEncoder"
    /\ streams[s].last.threw
    /\ streams[s].chunks = 1
    /\ ~streams[s].last.args[2].null

=============================================================================
